---------------------------- MODULE Spec2Model ----------------------------
(***************************************************************************)
(* A model of spanr (src/src/lib.rs): the TokenVisitor that pretty-prints  *)
(* a token tree while interning the provenance range of every token, and   *)
(* load_original_source, which sweeps the interned ranges over the text of *)
(* the files they name.                                                    *)
(*                                                                         *)
(* A String is a sequence of one-character strings, so that texts can be   *)
(* concatenated, sliced and compared.                                      *)
(***************************************************************************)
EXTENDS Integers, Sequences, FiniteSets, TLC

VARIABLES
    input,      \* the TokenStream handed to generate_html
    todo,       \* the call stack of visit_token_stream: one frame per open group
    res,        \* the TokenVisitor of generate_ranges
    pc,         \* the place generate_html has reached
    fs,         \* what the file system held when load_original_source read it
    loaded_sources, \* load_original_source: source id -> LoadedSource
    unvisited,  \* the loaded sources `loaded_sources.values_mut()` has yet to yield
    cur,        \* the source id of the loaded source being swept
    range_seps, \* its sorted range_seps
    next_sep,   \* the index in range_seps of the next separator of the sweep
    pos,        \* the cursor of the sweep
    indexes,    \* the active set of the sweep
    source_parts \* SourceParts.parts

vars == <<input, todo, res, pc, fs, loaded_sources, unvisited, cur, range_seps,
          next_sep, pos, indexes, source_parts>>

----------------------------------------------------------------------------
(* Values                                                                  *)

\* Option<T>: None is the empty sequence, Some(v) the sequence of v alone.
None == <<>>

Some(v) == <<v>>

Position(line, column) == [line |-> line, column |-> column]

\* A proc_macro2 Span: its source file (a path, and whether it is real) and
\* where it starts and ends.
RealSpan(path, start, end) ==
    [is_real |-> TRUE, path |-> path, start |-> start, end |-> end]

\* The span of a token that no source file backs (Span::call_site()).
NoSpan ==
    [is_real |-> FALSE, path |-> <<>>, start |-> Position(1, 0), end |-> Position(1, 0)]

Ident(text, span) == [kind |-> "Ident", text |-> text, span |-> span]

Literal(text, span) == [kind |-> "Literal", text |-> text, span |-> span]

Punct(ch, spacing, span) ==
    [kind |-> "Punct", text |-> <<ch>>, spacing |-> spacing, span |-> span]

Group(delimiter, stream, span_open, span_close) ==
    [kind |-> "Group", delimiter |-> delimiter, stream |-> stream,
     span_open |-> span_open, span_close |-> span_close]

Range(source, start, end) == [source |-> source, start |-> start, end |-> end]

----------------------------------------------------------------------------
(* TokenVisitor                                                            *)

\* add_span with the range keyed by its positions alone: every range is
\* taken to be of source 0.
add_span_by_position(tv, span) ==
    IF span.is_real
    THEN LET num_sources == Cardinality(DOMAIN tv.ranges.sources)
             sources == IF span.path \in DOMAIN tv.ranges.sources
                        THEN tv.ranges.sources
                        ELSE tv.ranges.sources @@ (span.path :> num_sources)
             range == Range(0, span.start, span.end)
             num_ranges == Cardinality(DOMAIN tv.ranges.ranges)
             ranges == IF range \in DOMAIN tv.ranges.ranges
                       THEN tv.ranges.ranges
                       ELSE tv.ranges.ranges @@ (range :> num_ranges)
         IN  [tv |-> [tv EXCEPT !.ranges.sources = sources,
                                !.ranges.ranges = ranges],
              range_idx |-> Some(ranges[range])]
    ELSE [tv |-> tv, range_idx |-> None]

\* add_span that interns the file of a span before it asks whether the file
\* is real.
add_span_unchecked(tv, span) ==
    LET num_sources == Cardinality(DOMAIN tv.ranges.sources)
        sources == IF span.path \in DOMAIN tv.ranges.sources
                   THEN tv.ranges.sources
                   ELSE tv.ranges.sources @@ (span.path :> num_sources)
        range == Range(sources[span.path], span.start, span.end)
        num_ranges == Cardinality(DOMAIN tv.ranges.ranges)
        ranges == IF range \in DOMAIN tv.ranges.ranges
                  THEN tv.ranges.ranges
                  ELSE tv.ranges.ranges @@ (range :> num_ranges)
    IN  IF span.is_real
        THEN [tv |-> [tv EXCEPT !.ranges.sources = sources,
                                !.ranges.ranges = ranges],
              range_idx |-> Some(ranges[range])]
        ELSE [tv |-> [tv EXCEPT !.ranges.sources = sources],
              range_idx |-> None]

\* fn add_span: interns the file and the range of a real span.  Returns the
\* visitor and the Option<usize> of the range.
add_span(tv, span) ==
    IF span.is_real
    THEN LET num_sources == Cardinality(DOMAIN tv.ranges.sources)
             sources == IF span.path \in DOMAIN tv.ranges.sources
                        THEN tv.ranges.sources
                        ELSE tv.ranges.sources @@ (span.path :> num_sources)
             range == Range(sources[span.path], span.start, span.end)
             num_ranges == Cardinality(DOMAIN tv.ranges.ranges)
             ranges == IF range \in DOMAIN tv.ranges.ranges
                       THEN tv.ranges.ranges
                       ELSE tv.ranges.ranges @@ (range :> num_ranges)
         IN  [tv |-> [tv EXCEPT !.ranges.sources = sources,
                                !.ranges.ranges = ranges],
              range_idx |-> Some(ranges[range])]
    ELSE [tv |-> tv, range_idx |-> None]

\* add_str that drops the id of the chunk.
add_str_untagged(tv, s, range_idx) ==
    [tv EXCEPT !.ranges.generated = Append(@, [text |-> s, range_idx |-> None])]

\* fn add_str
add_str(tv, s, range_idx) ==
    [tv EXCEPT !.ranges.generated = Append(@, [text |-> s, range_idx |-> range_idx])]

Newline == <<"\n">>

Space == <<" ">>

Indentation == <<" ", " ", " ", " ">>

\* add_indent that indents a line by one level at most.
add_indent_once(tv, n) ==
    IF n <= 0 THEN tv ELSE add_str(tv, Indentation, None)

RECURSIVE add_indent(_, _)
\* `for _ in 0..self.indent { self.add_str("    ", None) }`
add_indent(tv, n) ==
    IF n <= 0 THEN tv ELSE add_indent(add_str(tv, Indentation, None), n - 1)

\* `self.indent -= 1` on a usize: a decrement of 0 overflows (a panic in a
\* debug build, a wrap in a release build); either way the visitor is marked.
dec_indent(tv) ==
    IF tv.indent = 0
    THEN [tv EXCEPT !.overflow = TRUE]
    ELSE [tv EXCEPT !.indent = @ - 1]

\* before_close that forces a newline before every "}", pending or not.
before_close_always(tv, s) ==
    IF s = <<"}">>
    THEN add_str([dec_indent(tv) EXCEPT !.newline = TRUE], Newline, None)
    ELSE tv

\* visit_str, lines 97-106: what a "}" does before it is emitted.
before_close(tv, s) ==
    IF s = <<"}">>
    THEN LET t1 == dec_indent(tv)
         IN  IF ~t1.newline
             THEN add_str([t1 EXCEPT !.newline = TRUE], Newline, None)
             ELSE t1
    ELSE tv

\* visit_str, lines 107-112: the indentation of a line's first text.
start_line(tv) ==
    IF tv.newline
    THEN add_indent([tv EXCEPT !.newline = FALSE], tv.indent)
    ELSE tv

\* after_emit whose "{" opens a line without a level of indentation.
after_emit_flat(tv, s) ==
    IF s \in {<<"{">>, <<";">>, <<"}">>}
    THEN add_str([tv EXCEPT !.newline = TRUE], Newline, None)
    ELSE tv

\* visit_str, lines 114-125: the newline forced after "{", ";" and "}".
after_emit(tv, s) ==
    IF s = <<"{">>
    THEN add_str([tv EXCEPT !.indent = @ + 1, !.newline = TRUE], Newline, None)
    ELSE IF s = <<";">> \/ s = <<"}">>
         THEN add_str([tv EXCEPT !.newline = TRUE], Newline, None)
         ELSE tv

\* visit_str, lines 126-128.
reset_space(tv) ==
    IF tv.newline THEN [tv EXCEPT !.needs_space = "Never"] ELSE tv

\* fn visit_str
visit_str(tv, s, span) ==
    IF s = <<>>
    THEN tv
    ELSE LET a == add_span(tv, span)
             t1 == before_close(a.tv, s)
             t2 == start_line(t1)
             t3 == add_str(t2, s, a.range_idx)
             t4 == after_emit(t3, s)
         IN  reset_space(t4)

\* visit_token_tree, lines 139-144: the text of a group's opening delimiter.
open_str(delimiter) ==
    CASE delimiter = "Parenthesis" -> <<"(">>
      [] delimiter = "Brace" -> <<"{">>
      [] delimiter = "Bracket" -> <<"[">>
      [] delimiter = "None" -> <<>>

\* visit_token_tree, lines 149-154: the text of a group's closing delimiter.
close_str(delimiter) ==
    CASE delimiter = "Parenthesis" -> <<")">>
      [] delimiter = "Brace" -> <<"}">>
      [] delimiter = "Bracket" -> <<"]">>
      [] delimiter = "None" -> <<>>

\* visit_token_tree, TokenTree::Ident(ident)
visit_ident(tv, ident) ==
    LET t1 == IF tv.needs_space # "Never" THEN add_str(tv, Space, None) ELSE tv
        t2 == visit_str(t1, ident.text, ident.span)
    IN  [t2 EXCEPT !.needs_space = "IfNotPunct"]

\* visit_punct that puts a space before a punctuation as before an
\* identifier: unless the state is Never.
visit_punct_spaced(tv, punct) ==
    LET t1 == IF tv.needs_space # "Never" THEN add_str(tv, Space, None) ELSE tv
        t2 == visit_str(t1, punct.text, punct.span)
    IN  IF punct.spacing = "Alone"
        THEN [t2 EXCEPT !.needs_space = "Always"]
        ELSE t2

\* visit_token_tree, TokenTree::Punct(punct)
visit_punct(tv, punct) ==
    LET t1 == IF tv.needs_space = "Always" THEN add_str(tv, Space, None) ELSE tv
        t2 == visit_str(t1, punct.text, punct.span)
    IN  IF punct.spacing = "Alone"
        THEN [t2 EXCEPT !.needs_space = "Always"]
        ELSE t2

\* visit_token_tree, TokenTree::Literal(literal)
visit_literal(tv, literal) ==
    LET t1 == IF tv.needs_space # "Never" THEN add_str(tv, Space, None) ELSE tv
        t2 == visit_str(t1, literal.text, literal.span)
    IN  [t2 EXCEPT !.needs_space = "IfNotPunct"]

\* generate_ranges, lines 186-191: the visitor the traversal starts from.
NewTokenVisitor ==
    [ranges |-> [sources |-> <<>>, ranges |-> <<>>, generated |-> <<>>],
     indent |-> 0,
     newline |-> TRUE,
     needs_space |-> "Never",
     overflow |-> FALSE]

RECURSIVE visit_token_stream(_, _), visit_token_tree(_, _)
\* fn visit_token_stream
visit_token_stream(tv, token_stream) ==
    IF token_stream = <<>>
    THEN tv
    ELSE visit_token_stream(visit_token_tree(tv, Head(token_stream)),
                            Tail(token_stream))

\* fn visit_token_tree
visit_token_tree(tv, token_tree) ==
    CASE token_tree.kind = "Group" ->
            LET t1 == visit_str(tv, open_str(token_tree.delimiter),
                                token_tree.span_open)
                t2 == visit_token_stream(t1, token_tree.stream)
            IN  visit_str(t2, close_str(token_tree.delimiter), token_tree.span_close)
      [] token_tree.kind = "Ident" -> visit_ident(tv, token_tree)
      [] token_tree.kind = "Punct" -> visit_punct(tv, token_tree)
      [] token_tree.kind = "Literal" -> visit_literal(tv, token_tree)

\* fn generate_ranges
generate_ranges(token_stream) ==
    visit_token_stream(NewTokenVisitor, token_stream).ranges

----------------------------------------------------------------------------
(* The traversal, a visit at a time                                        *)

\* A frame of visit_token_stream: the tokens of the stream still to visit
\* and the group whose stream it is (the caller's stream has none).
Frame(stream, group) == [stream |-> stream, group |-> group]

NextToken == Head(Head(todo).stream)

\* The stack once the first token of the innermost stream is taken.
Advance == <<[Head(todo) EXCEPT !.stream = Tail(@)]>> \o Tail(todo)

\* TokenTree::Group, lines 138-147: the opening delimiter is visited and the
\* group's stream is entered.
VisitGroupOpen ==
    /\ pc = "format"
    /\ Head(todo).stream # <<>>
    /\ NextToken.kind = "Group"
    /\ res' = visit_str(res, open_str(NextToken.delimiter), NextToken.span_open)
    /\ todo' = <<Frame(NextToken.stream, Some(NextToken))>> \o Advance
    /\ UNCHANGED <<input, pc, fs, loaded_sources, unvisited, cur, range_seps,
                   next_sep, pos, indexes, source_parts>>

\* TokenTree::Group, lines 148-156: the group's stream is exhausted and the
\* closing delimiter is visited.
VisitGroupClose ==
    /\ pc = "format"
    /\ Head(todo).stream = <<>>
    /\ Head(todo).group # None
    /\ LET group == Head(todo).group[1]
       IN  res' = visit_str(res, close_str(group.delimiter), group.span_close)
    /\ todo' = Tail(todo)
    /\ UNCHANGED <<input, pc, fs, loaded_sources, unvisited, cur, range_seps,
                   next_sep, pos, indexes, source_parts>>

VisitIdent ==
    /\ pc = "format"
    /\ Head(todo).stream # <<>>
    /\ NextToken.kind = "Ident"
    /\ res' = visit_ident(res, NextToken)
    /\ todo' = Advance
    /\ UNCHANGED <<input, pc, fs, loaded_sources, unvisited, cur, range_seps,
                   next_sep, pos, indexes, source_parts>>

VisitPunct ==
    /\ pc = "format"
    /\ Head(todo).stream # <<>>
    /\ NextToken.kind = "Punct"
    /\ res' = visit_punct(res, NextToken)
    /\ todo' = Advance
    /\ UNCHANGED <<input, pc, fs, loaded_sources, unvisited, cur, range_seps,
                   next_sep, pos, indexes, source_parts>>

VisitLiteral ==
    /\ pc = "format"
    /\ Head(todo).stream # <<>>
    /\ NextToken.kind = "Literal"
    /\ res' = visit_literal(res, NextToken)
    /\ todo' = Advance
    /\ UNCHANGED <<input, pc, fs, loaded_sources, unvisited, cur, range_seps,
                   next_sep, pos, indexes, source_parts>>

\* generate_ranges returns res.ranges (line 193) and generate_html goes on to
\* load_original_source (line 325).
Return ==
    /\ pc = "format"
    /\ Head(todo).stream = <<>>
    /\ Head(todo).group = None
    /\ pc' = "load"
    /\ todo' = <<>>
    /\ UNCHANGED <<input, res, fs, loaded_sources, unvisited, cur, range_seps,
                   next_sep, pos, indexes, source_parts>>

----------------------------------------------------------------------------
(* The files                                                               *)

PathA == <<"a", ".", "r", "s">>

PathB == <<"b", ".", "r", "s">>

\* What fs::read_to_string(path).ok() may yield when load_original_source
\* runs: None for a file it cannot read, or the file's text.  The characters
\* of the texts are all different, so that a character tells where it stands.
FileContents(path) ==
    IF path = PathA
    THEN {None, Some(<<"a", "\r", "\n", "b", "c", "\n">>)}
    ELSE {None, Some(<<"x", "y">>)}

\* The states of the file system: what each path of `paths` holds.
FileSystems(paths) ==
    {files \in [paths -> UNION {FileContents(path) : path \in paths}] :
        \A path \in paths : files[path] \in FileContents(path)}

RECURSIVE split(_, _)
\* The pieces of `text` between its "\n": `cur` is the piece being read.
split(text, piece) ==
    IF text = <<>>
    THEN IF piece = <<>> THEN <<>> ELSE <<piece>>
    ELSE IF Head(text) = "\n"
         THEN <<piece>> \o split(Tail(text), <<>>)
         ELSE split(Tail(text), Append(piece, Head(text)))

\* A line without the "\r" of its "\r\n".
strip_cr(line) ==
    IF line # <<>> /\ line[Len(line)] = "\r"
    THEN SubSeq(line, 1, Len(line) - 1)
    ELSE line

\* str::lines (line 225): the lines of a text, without their line endings
\* ("\n" or "\r\n"); the final line ending is optional.
lines(text) ==
    LET pieces == split(text, <<>>)
        ended(i) == i < Len(pieces) \/ (text # <<>> /\ text[Len(text)] = "\n")
    IN  [i \in 1..Len(pieces) |->
            IF ended(i) THEN strip_cr(pieces[i]) ELSE pieces[i]]

----------------------------------------------------------------------------
(* load_original_source                                                    *)

RangeSeparator(p, sep, idx) == [pos |-> p, sep |-> sep, idx |-> idx]

\* #[derive(PartialOrd, Ord)] of Position: by line, then by column.
pos_lt(a, b) ==
    a.line < b.line \/ (a.line = b.line /\ a.column < b.column)

\* The order of a SeparatorType declared as { End, Start }.
sep_lt_end_first(a, b) == a = "End" /\ b = "Start"

\* #[derive(PartialOrd, Ord)] of SeparatorType: Start before End.
sep_lt(a, b) == a = "Start" /\ b = "End"

\* The order of RangeSeparator with the fields compared as pos, idx, sep.
range_sep_lt_idx_first(a, b) ==
    \/ pos_lt(a.pos, b.pos)
    \/ a.pos = b.pos /\ a.idx < b.idx
    \/ a.pos = b.pos /\ a.idx = b.idx /\ sep_lt(a.sep, b.sep)

\* The order of RangeSeparator with End before Start at one position.
range_sep_lt_end_first(a, b) ==
    \/ pos_lt(a.pos, b.pos)
    \/ a.pos = b.pos /\ sep_lt(b.sep, a.sep)
    \/ a.pos = b.pos /\ a.sep = b.sep /\ a.idx < b.idx

\* #[derive(PartialOrd, Ord)] of RangeSeparator: by pos, then sep, then idx.
range_sep_lt(a, b) ==
    \/ pos_lt(a.pos, b.pos)
    \/ a.pos = b.pos /\ sep_lt(a.sep, b.sep)
    \/ a.pos = b.pos /\ a.sep = b.sep /\ a.idx < b.idx

RECURSIVE sort_by_idx(_)
\* A sort of the separators by idx, then sep, then pos.
sort_by_idx(seps) ==
    IF seps = {}
    THEN <<>>
    ELSE LET lt(a, b) == \/ a.idx < b.idx
                         \/ a.idx = b.idx /\ sep_lt(a.sep, b.sep)
             least == CHOOSE a \in seps : \A b \in seps \ {a} : lt(a, b)
         IN  <<least>> \o sort_by_idx(seps \ {least})

RECURSIVE sort(_)
\* `range_seps.sort()` (line 249), of separators pushed in the order a
\* HashMap yields the ranges: the separators as a set, smallest first.
sort(seps) ==
    IF seps = {}
    THEN <<>>
    ELSE LET least == CHOOSE a \in seps : \A b \in seps \ {a} : range_sep_lt(a, b)
         IN  <<least>> \o sort(seps \ {least})

\* separators that number the ranges from 1.
separators_from_one(ranges, source) ==
    UNION {{RangeSeparator(range.start, "Start", ranges[range] + 1),
            RangeSeparator(range.end, "End", ranges[range] + 1)} :
           range \in {r \in DOMAIN ranges : r.source = source}}

\* Lines 232-245: the separators of the ranges of one source.
separators(ranges, source) ==
    UNION {{RangeSeparator(range.start, "Start", ranges[range]),
            RangeSeparator(range.end, "End", ranges[range])} :
           range \in {r \in DOMAIN ranges : r.source = source}}

\* load that takes a file it cannot read for an empty one.
load_unread(ranges, files) ==
    LET path_of(source) ==
            CHOOSE path \in DOMAIN ranges.sources : ranges.sources[path] = source
    IN  [source \in {ranges.sources[path] : path \in DOMAIN ranges.sources} |->
            [path |-> path_of(source),
             text |-> IF files[path_of(source)] = None
                      THEN <<>>
                      ELSE lines(files[path_of(source)][1]),
             range_seps |-> separators(ranges.ranges, source)]]

\* Lines 216-245: the sources whose file can be read, each with its lines
\* and the separators of its ranges.
load(ranges, files) ==
    LET readable == {path \in DOMAIN ranges.sources : files[path] # None}
        path_of(source) == CHOOSE path \in readable : ranges.sources[path] = source
    IN  [source \in {ranges.sources[path] : path \in readable} |->
            [path |-> path_of(source),
             text |-> lines(files[path_of(source)][1]),
             range_seps |-> separators(ranges.ranges, source)]]

\* Vec::get of `loaded_source.text.get(pos.line.wrapping_sub(1))`: line 0
\* wraps to usize::MAX, which no Vec reaches.
text_get(text, line) ==
    IF line = 0 \/ line - 1 >= Len(text) THEN None ELSE Some(text[line])

\* Iterator::skip over the characters of a line.
skip(s, n) == SubSeq(s, n + 1, Len(s))

\* A take that takes all there is.
take_rest(s, n) == s

\* Iterator::take
take(s, n) == SubSeq(s, 1, IF n < Len(s) THEN n ELSE Len(s))

\* SourceParts::add_unspanned: a part with no index.
add_unspanned(parts, s) == Append(parts, [text |-> s, indexes |-> {}])

\* SourceParts::add: a part with the indexes of the active set.
add(parts, s, active) == Append(parts, [text |-> s, indexes |-> active])

HeaderRule == <<"/", "/">> \o [i \in 1..38 |-> "="]

\* Lines 251-258: the header of a loaded source.
header(path) ==
    <<Newline, HeaderRule, Newline, <<"/", "/", " ">>, path, Newline,
      HeaderRule, Newline>>

RECURSIVE skip_lines(_, _, _, _, _)
\* Lines 265-273: the lines the cursor leaves before it reaches `line`.
skip_lines(parts, text, at, active, line) ==
    IF at.line < line
    THEN LET got == text_get(text, at.line)
             p1 == IF got # None
                   THEN add(parts, skip(got[1], at.column), active)
                   ELSE parts
         IN  skip_lines(add_unspanned(p1, Newline), text,
                        Position(at.line + 1, 0), active, line)
    ELSE [parts |-> parts, pos |-> at]

\* skip_columns that leaves the cursor where it was.
skip_columns_stay(parts, text, at, active, column) ==
    IF at.column < column
    THEN LET got == text_get(text, at.line)
         IN  [parts |-> IF got # None
                        THEN add(parts,
                                 take(skip(got[1], at.column), column - at.column),
                                 active)
                        ELSE parts,
              pos |-> at]
    ELSE [parts |-> parts, pos |-> at]

\* Lines 274-284: the text between the cursor and a separator on its line.
skip_columns(parts, text, at, active, column) ==
    IF at.column < column
    THEN LET got == text_get(text, at.line)
         IN  [parts |-> IF got # None
                        THEN add(parts,
                                 take(skip(got[1], at.column), column - at.column),
                                 active)
                        ELSE parts,
              pos |-> Position(at.line, column)]
    ELSE [parts |-> parts, pos |-> at]

\* apply_sep whose End removes nothing.
apply_sep_keep(active, range_sep) ==
    IF range_sep.sep = "Start" THEN active \cup {range_sep.idx} ELSE active

\* Lines 285-292: a Start inserts the index of its range, an End removes it.
apply_sep(active, range_sep) ==
    IF range_sep.sep = "Start"
    THEN active \cup {range_sep.idx}
    ELSE active \ {range_sep.idx}

\* Lines 294-298: the rest of the cursor's line.
rest_of_line(text, at, active) ==
    LET got == text_get(text, at.line)
        p1 == IF got # None THEN add(<<>>, skip(got[1], at.column), active) ELSE <<>>
    IN  add_unspanned(p1, Newline)

\* The orders in which iterating a HashSet<usize> may yield its elements.
iter_orders(set) ==
    {v \in [1..Cardinality(set) -> set] : \A i, j \in DOMAIN v : i # j => v[i] # v[j]}

RECURSIVE collected(_)
\* `indexes.iter().copied().collect()` (line 211) for each new part: the
\* Vec<usize> of a part lists the active set in an order of the HashSet's.
collected(parts) ==
    IF parts = <<>>
    THEN {<<>>}
    ELSE {<<[text |-> Head(parts).text, indexes |-> v]>> \o rest :
            v \in iter_orders(Head(parts).indexes), rest \in collected(Tail(parts))}


\* A cursor that starts at the top of the file.
first_pos_top(sorted) == Position(1, 0)

\* Lines 261-262: the cursor starts at column 0 of the line of the first
\* separator.
first_pos(sorted) == Position(sorted[1].pos.line, 0)

RECURSIVE sweep(_, _, _, _, _)
\* Lines 264-298 for one loaded source: the parts added from the i-th
\* separator on, with the cursor at `at` and the active set `active`.
sweep(text, seps, i, at, active) ==
    IF i > Len(seps)
    THEN rest_of_line(text, at, active)
    ELSE LET a == skip_lines(<<>>, text, at, active, seps[i].pos.line)
             b == skip_columns(a.parts, text, a.pos, active, seps[i].pos.column)
         IN  b.parts \o sweep(text, seps, i + 1, b.pos, apply_sep(active, seps[i]))

\* Lines 249-298: what one round of `for loaded_source in
\* loaded_sources.values_mut()` may add to source_parts.
sweep_outputs(loaded_source) ==
    LET sorted == sort(loaded_source.range_seps)
        head == [i \in 1..8 |-> [text |-> header(loaded_source.path)[i],
                                 indexes |-> <<>>]]
    IN  {head \o parts :
            parts \in collected(sweep(loaded_source.text, sorted, 1,
                                      first_pos(sorted), {}))}

RECURSIVE values_outputs(_, _)
\* Lines 248-299: what the loop may add for the sources of `sources`, which
\* the HashMap yields in any order.
values_outputs(loaded, sources) ==
    IF sources = {}
    THEN {<<>>}
    ELSE UNION {{first \o rest : first \in sweep_outputs(loaded[source]),
                                 rest \in values_outputs(loaded, sources \ {source})} :
                source \in sources}

\* fn load_original_source: the SourceParts it may return.
load_original_source(ranges, files) ==
    LET loaded == load(ranges, files)
    IN  values_outputs(loaded, DOMAIN loaded)

\* Lines 216-245 and 247: the files are read, the separators pushed.
LoadSources ==
    /\ pc = "load"
    /\ fs' \in FileSystems(DOMAIN res.ranges.sources)
    /\ loaded_sources' = load(res.ranges, fs')
    /\ unvisited' = DOMAIN loaded_sources'
    /\ source_parts' = <<>>
    /\ pc' = "sources"
    /\ UNCHANGED <<input, todo, res, cur, range_seps, next_sep, pos, indexes>>

\* Lines 248-262: `loaded_sources.values_mut()` yields a source (in the order
\* of the HashMap: any), its separators are sorted, its header is added and
\* the cursor is put at the start of the line of the first separator, which
\* `first().unwrap()` needs to be there.
BeginSource ==
    /\ pc = "sources"
    /\ \E source \in unvisited :
          LET loaded_source == loaded_sources[source]
              sorted == sort(loaded_source.range_seps)
          IN  /\ cur' = Some(source)
              /\ unvisited' = unvisited \ {source}
              /\ range_seps' = sorted
              /\ source_parts' = source_parts \o
                    [i \in 1..8 |-> [text |-> header(loaded_source.path)[i],
                                     indexes |-> <<>>]]
              /\ indexes' = {}
              /\ next_sep' = 1
              /\ IF sorted = <<>>
                 THEN pc' = "panic" /\ pos' = pos
                 ELSE pc' = "sweep" /\ pos' = first_pos(sorted)
    /\ UNCHANGED <<input, todo, res, fs, loaded_sources>>

\* Lines 264-293: one round of `for range_sep in &loaded_source.range_seps`.
SweepSeparator ==
    /\ pc = "sweep"
    /\ next_sep <= Len(range_seps)
    /\ LET range_sep == range_seps[next_sep]
           text == loaded_sources[cur[1]].text
           a == skip_lines(<<>>, text, pos, indexes, range_sep.pos.line)
           b == skip_columns(a.parts, text, a.pos, indexes, range_sep.pos.column)
       IN  /\ \E parts \in collected(b.parts) : source_parts' = source_parts \o parts
           /\ pos' = b.pos
           /\ indexes' = apply_sep(indexes, range_sep)
    /\ next_sep' = next_sep + 1
    /\ UNCHANGED <<input, todo, res, pc, fs, loaded_sources, unvisited, cur,
                   range_seps>>

\* Lines 294-299: after the last separator, the rest of the cursor's line.
EndSource ==
    /\ pc = "sweep"
    /\ next_sep > Len(range_seps)
    /\ \E parts \in collected(rest_of_line(loaded_sources[cur[1]].text, pos, indexes)) :
          source_parts' = source_parts \o parts
    /\ cur' = None
    /\ pc' = "sources"
    /\ UNCHANGED <<input, todo, res, fs, loaded_sources, unvisited, range_seps,
                   next_sep, pos, indexes>>

\* Line 300: every loaded source is swept and load_original_source returns.
Finish ==
    /\ pc = "sources"
    /\ unvisited = {}
    /\ pc' = "done"
    /\ UNCHANGED <<input, todo, res, fs, loaded_sources, unvisited, cur, range_seps,
                   next_sep, pos, indexes, source_parts>>

Next ==
    \/ VisitGroupOpen
    \/ VisitGroupClose
    \/ VisitIdent
    \/ VisitPunct
    \/ VisitLiteral
    \/ Return
    \/ LoadSources
    \/ BeginSource
    \/ SweepSeparator
    \/ EndSource
    \/ Finish


----------------------------------------------------------------------------
(* The token streams given to generate_html                                *)

\* The most tokens of a stream of Init, a group counting as two.
MaxTokens == 4

\* The last line and the last column a span of InitSweep may name; the text
\* at PathA has two lines, of one character and of two.
MaxLine == 3

MaxColumn == 2

SpanA1 == RealSpan(PathA, Position(1, 0), Position(1, 1))

SpanA2 == RealSpan(PathA, Position(1, 1), Position(2, 1))

SpanB1 == RealSpan(PathB, Position(1, 0), Position(1, 1))

Leaves ==
    {Ident(<<"a">>, span) : span \in {NoSpan, SpanA1}}
    \cup {Literal(<<"1">>, SpanB1)}
    \cup {Punct("-", spacing, NoSpan) : spacing \in {"Alone", "Joint"}}
    \cup {Punct(";", spacing, NoSpan) : spacing \in {"Alone", "Joint"}}

\* The groups without their streams.
Groups ==
    {Group(delimiter, <<>>, NoSpan, NoSpan) :
        delimiter \in {"Parenthesis", "Brace", "Bracket", "None"}}
    \cup {Group("Brace", <<>>, SpanA1, SpanA2)}

RECURSIVE Streams(_)
\* The token streams of at most n tokens over Leaves and Groups.
Streams(n) ==
    IF n = 0
    THEN {<<>>}
    ELSE {<<>>}
         \cup {<<leaf>> \o rest : leaf \in Leaves, rest \in Streams(n - 1)}
         \cup UNION {{<<[group EXCEPT !.stream = inner]>> \o rest :
                        inner \in Streams(k), rest \in Streams(n - 2 - k)} :
                     k \in 0..(n - 2), group \in Groups}

\* The positions a span of InitSweep may name: in the text at PathA, past
\* the end of a line, past the last line, and line 0.
Positions == {Position(line, column) : line \in 0..MaxLine, column \in 0..MaxColumn}

\* proc_macro2 spans start no later than they end.
SpansOf(path, starts, ends) ==
    {RealSpan(path, start, end) : start \in starts, end \in ends} \cap
    {span \in [is_real : {TRUE}, path : {path}, start : starts, end : ends] :
        ~pos_lt(span.end, span.start)}

SpansA == SpansOf(PathA, Positions, Positions)

\* The spans a second token has beside the first's: a span over both lines,
\* line 1, a span from the end of line 1 into line 2, the halves of line 2,
\* an empty span, a span from past the end of line 1 to past the last line,
\* and the span of a token whose position is not known (line 0).
Companions ==
    {RealSpan(PathA, Position(1, 0), Position(2, 2)),
     RealSpan(PathA, Position(1, 0), Position(1, 1)),
     RealSpan(PathA, Position(1, 1), Position(2, 1)),
     RealSpan(PathA, Position(2, 0), Position(2, 1)),
     RealSpan(PathA, Position(2, 1), Position(2, 1)),
     RealSpan(PathA, Position(2, 1), Position(2, 2)),
     RealSpan(PathA, Position(1, 2), Position(3, 0)),
     RealSpan(PathA, Position(0, 0), Position(0, 0))}

SpansB == {NoSpan, SpanB1, RealSpan(PathB, Position(1, 1), Position(1, 1))}

\* The streams of InitSweep: `a - { 1 }` with the spans of its tokens drawn
\* from SpansA, Companions and SpansB.
SweepStreams ==
    {<<Ident(<<"a">>, s1), Punct("-", "Alone", s3),
       Group("Brace", <<Literal(<<"1">>, s2)>>, NoSpan, NoSpan)>> :
        s1 \in SpansA, s2 \in Companions, s3 \in SpansB}

\* The stream of tests::it_works with a `;`, `fn foo() -> i32 { 42; }`, with
\* either spacing for its punctuation and spans for some of its tokens.
FnStreams ==
    {<<Ident(<<"f", "n">>, s1), Ident(<<"f", "o", "o">>, NoSpan),
       Group("Parenthesis", <<>>, NoSpan, NoSpan),
       Punct("-", minus, NoSpan), Punct(">", greater, NoSpan),
       Ident(<<"i", "3", "2">>, NoSpan),
       Group("Brace", <<Literal(<<"4", "2">>, s2), Punct(";", semi, NoSpan)>>,
             NoSpan, NoSpan)>> :
        s1 \in {NoSpan, SpanA1}, s2 \in {NoSpan, SpanB1},
        minus \in {"Alone", "Joint"}, greater \in {"Alone", "Joint"},
        semi \in {"Alone", "Joint"}}

\* generate_html, lines 323-324, and generate_ranges, lines 186-192.
Start(streams) ==
    /\ input \in streams
    /\ todo = <<Frame(input, None)>>
    /\ res = NewTokenVisitor
    /\ pc = "format"
    /\ fs = <<>>
    /\ loaded_sources = <<>>
    /\ unvisited = {}
    /\ cur = None
    /\ range_seps = <<>>
    /\ next_sep = 1
    /\ pos = Position(0, 0)
    /\ indexes = {}
    /\ source_parts = <<>>

\* What stands at one place of a stream of InitNest: nothing, an identifier,
\* a `;`, or a literal with an empty span.
NestLeaves ==
    {<<>>,
     <<Ident(<<"a">>, SpanA1)>>,
     <<Punct(";", "Alone", NoSpan)>>,
     <<Literal(<<"1">>, RealSpan(PathB, Position(1, 1), Position(1, 1)))>>}

\* The streams of InitNest: `{ x1 ( x2 { x3 } ) x4 }`, the middle group with
\* parentheses or braces, each x nothing or one token.
NestStreams ==
    {<<Group("Brace",
             x1 \o <<Group(delimiter,
                           x2 \o <<Group("Brace", x3, NoSpan, NoSpan)>>,
                           NoSpan, NoSpan)>> \o x4,
             SpanA2, NoSpan)>> :
        x1 \in NestLeaves, x2 \in NestLeaves, x3 \in NestLeaves, x4 \in NestLeaves,
        delimiter \in {"Parenthesis", "Brace"}}

Init == Start(Streams(MaxTokens))

InitNest == Start(NestStreams)

InitSweep == Start(SweepStreams)

InitFn == Start(FnStreams)

Spec == Init /\ [][Next]_vars

SpecSweep == InitSweep /\ [][Next]_vars

SpecFn == InitFn /\ [][Next]_vars

SpecNest == InitNest /\ [][Next]_vars


----------------------------------------------------------------------------
(* The tokens of a stream in the order visit_token_tree visits them        *)

Visit(kind, text, span, spacing) ==
    [kind |-> kind, text |-> text, span |-> span, spacing |-> spacing]

RECURSIVE visits(_)
\* The calls of visit_str that visit_token_stream makes for a stream, in
\* order: one for an identifier, a literal or a punctuation, and for a group
\* one for its opening delimiter, those of its stream, one for its closing
\* delimiter.
visits(stream) ==
    IF stream = <<>>
    THEN <<>>
    ELSE LET token == Head(stream)
             first ==
                 IF token.kind = "Group"
                 THEN <<Visit("Open", open_str(token.delimiter), token.span_open, "")>>
                      \o visits(token.stream)
                      \o <<Visit("Close", close_str(token.delimiter),
                                 token.span_close, "")>>
                 ELSE <<Visit(token.kind, token.text, token.span,
                              IF token.kind = "Punct" THEN token.spacing ELSE "")>>
         IN  first \o visits(Tail(stream))

\* The visits that emit a text: visit_str returns at once on an empty one.
emitting(vs) == SelectSeq(vs, LAMBDA v : v.text # <<>>)

tokens(stream) == emitting(visits(stream))

RECURSIVE concat(_)
\* The concatenation of the texts of a sequence of chunks.
concat(chunks) ==
    IF chunks = <<>> THEN <<>> ELSE Head(chunks).text \o concat(Tail(chunks))

\* The texts the formatter adds of its own: a space, a newline, an indentation.
Synthetic == {Space, Newline, Indentation}

\* The chunks of the generated side that hold the text of a token.
token_chunks(generated) == SelectSeq(generated, LAMBDA c : c.text \notin Synthetic)

RECURSIVE chunk_places(_, _)
\* The places in `generated`, from place i on, of the chunks that hold the
\* text of a token.
chunk_places(generated, i) ==
    IF i > Len(generated)
    THEN <<>>
    ELSE (IF generated[i].text \notin Synthetic THEN <<i>> ELSE <<>>)
         \o chunk_places(generated, i + 1)

\* The (file, start, end) of a real span.
triple(span) == <<span.path, span.start, span.end>>

----------------------------------------------------------------------------
(* C1                                                                      *)

\* Whether a stream is `fn foo ( ) - > i32 { 42 ; }` with `-` Joint, `>` Alone
\* and `;` Alone, whatever the spans of its tokens.
IsFnStream(stream) ==
    [i \in 1..Len(visits(stream)) |->
        [kind |-> visits(stream)[i].kind, text |-> visits(stream)[i].text,
         spacing |-> visits(stream)[i].spacing]]
    = <<[kind |-> "Ident", text |-> <<"f", "n">>, spacing |-> ""],
        [kind |-> "Ident", text |-> <<"f", "o", "o">>, spacing |-> ""],
        [kind |-> "Open", text |-> <<"(">>, spacing |-> ""],
        [kind |-> "Close", text |-> <<")">>, spacing |-> ""],
        [kind |-> "Punct", text |-> <<"-">>, spacing |-> "Joint"],
        [kind |-> "Punct", text |-> <<">">>, spacing |-> "Alone"],
        [kind |-> "Ident", text |-> <<"i", "3", "2">>, spacing |-> ""],
        [kind |-> "Open", text |-> <<"{">>, spacing |-> ""],
        [kind |-> "Literal", text |-> <<"4", "2">>, spacing |-> ""],
        [kind |-> "Punct", text |-> <<";">>, spacing |-> "Alone"],
        [kind |-> "Close", text |-> <<"}">>, spacing |-> ""]>>

\* "fn foo() -> i32 {\n    42;\n}\n"
FnTextClaimed ==
    <<"f", "n", " ", "f", "o", "o", "(", ")", " ", "-", ">", " ", "i", "3", "2",
      " ", "{", "\n", " ", " ", " ", " ", "4", "2", ";", "\n", "}", "\n">>

\* "fn foo()-> i32{\n    42;\n}\n"
FnTextGenerated ==
    <<"f", "n", " ", "f", "o", "o", "(", ")", "-", ">", " ", "i", "3", "2",
      "{", "\n", " ", " ", " ", " ", "4", "2", ";", "\n", "}", "\n">>

\* C1 as claimed: once generate_ranges has returned for the tokens `fn`,
\* `foo`, `()`, `-` (Joint), `>` (Alone), `i32`, `{ 42 ; }`, the texts of the
\* generated chunks concatenate to "fn foo() -> i32 {\n    42;\n}\n".
C1_FnFormatsAsClaimed ==
    (pc # "format" /\ IsFnStream(input)) => concat(res.ranges.generated) = FnTextClaimed

\* C1 as amended: they concatenate to "fn foo()-> i32{\n    42;\n}\n", with
\* no space before `->` nor before `{`; the rest is as claimed (no space
\* between `foo` and `(`, the body indented by 4 spaces, `}` on its own line).
C1_FnFormats ==
    (pc # "format" /\ IsFnStream(input)) => concat(res.ranges.generated) = FnTextGenerated

C1_Witness ==
    /\ pc = "done"
    /\ IsFnStream(input)
    /\ Len(res.ranges.generated) = 17

----------------------------------------------------------------------------
(* C2                                                                      *)

\* The real spans add_span has interned so far, in the order of its calls:
\* every such call is followed by the push of one chunk with the id returned.
ids_returned == 
    LET tagged == SelectSeq(res.ranges.generated, LAMBDA c : c.range_idx # None)
    IN  [i \in 1..Len(tagged) |-> tagged[i].range_idx[1]]

spans_interned ==
    LET real == SelectSeq(tokens(input), LAMBDA v : v.span.is_real)
    IN  SubSeq(real, 1, Len(ids_returned))

\* C2: at every point of the traversal, two calls of add_span on real spans
\* have returned the same id exactly when their spans have the same (file,
\* start, end), and the call that first meets a range returns the number of
\* distinct ranges met before it: the ids are 0, 1, 2, ... in order of first
\* encounter, however many tokens share a range.
C2_IdsInternRanges ==
    LET ids == ids_returned
        calls == [i \in 1..Len(ids) |-> triple(spans_interned[i].span)]
    IN  /\ \A i, j \in 1..Len(ids) : (ids[i] = ids[j]) <=> (calls[i] = calls[j])
        /\ \A i \in 1..Len(ids) :
              ids[i] = Cardinality({calls[j] : j \in 1..(i - 1)} \ {calls[i]})
              \/ \E j \in 1..(i - 1) : calls[j] = calls[i]
        /\ {ids[i] : i \in 1..Len(ids)} = 0..(Cardinality(DOMAIN res.ranges.ranges) - 1)

\* A range met twice, after another range of the same positions in another file.
C2_Witness ==
    /\ pc = "done"
    /\ \E i, j, k \in 1..Len(ids_returned) :
          /\ i < j /\ j < k
          /\ ids_returned[i] = 0 /\ ids_returned[j] = 1 /\ ids_returned[k] = 0
          /\ spans_interned[i].span.path # spans_interned[j].span.path
          /\ spans_interned[i].span.start = spans_interned[j].span.start
          /\ spans_interned[i].span.end = spans_interned[j].span.end

----------------------------------------------------------------------------
(* C9                                                                      *)

\* The chunk visit_str adds for a visit: its text, with the id the interner
\* holds for its span when the span is real.
chunk_of(visit) ==
    [text |-> visit.text,
     range_idx |->
        IF visit.span.is_real
        THEN LET sources == res.ranges.sources
                 ranges == res.ranges.ranges
                 range == Range(IF visit.span.path \in DOMAIN sources
                                THEN sources[visit.span.path] ELSE -1,
                                visit.span.start, visit.span.end)
             IN  IF range \in DOMAIN ranges THEN Some(ranges[range]) ELSE Some(-1)
        ELSE None]

\* C9: once the traversal is over, the chunks other than spaces, newlines
\* and indentations are the non-empty token texts, one chunk each, in the
\* order of the tokens, each with the id of its span (none when the span is
\* not real), and the spaces, newlines and indentations have no id.
C9_TokenChunks ==
    pc # "format" =>
        /\ token_chunks(res.ranges.generated)
           = [i \in 1..Len(tokens(input)) |-> chunk_of(tokens(input)[i])]
        /\ \A i \in 1..Len(res.ranges.generated) :
              res.ranges.generated[i].text \in Synthetic
                  => res.ranges.generated[i].range_idx = None

\* A traversal that has emitted a token with a real span, one without, a
\* space, a newline and an indentation.
C9_Witness ==
    /\ pc = "done"
    /\ \E i, j \in 1..Len(token_chunks(res.ranges.generated)) :
          /\ token_chunks(res.ranges.generated)[i].range_idx # None
          /\ token_chunks(res.ranges.generated)[j].range_idx = None
    /\ \A s \in Synthetic :
          \E i \in 1..Len(res.ranges.generated) : res.ranges.generated[i].text = s

----------------------------------------------------------------------------
(* C10                                                                     *)

\* C10 as claimed: once the traversal is over, no space chunk lies between
\* the chunk of a Joint punctuation and the chunk of the punctuation that
\* follows it in its stream.
C10_JointPunctNoSpace ==
    pc # "format" =>
        LET vs == visits(input)
            at == chunk_places(res.ranges.generated, 1)
            nth(i) == Len(emitting(SubSeq(vs, 1, i)))
        IN  \A i \in 1..(Len(vs) - 1) :
               (vs[i].kind = "Punct" /\ vs[i].spacing = "Joint"
                /\ vs[i + 1].kind = "Punct")
               => \A k \in (at[nth(i)] + 1)..(at[nth(i + 1)] - 1) :
                     res.ranges.generated[k].text # Space


----------------------------------------------------------------------------
(* The parts of a loaded source among source_parts                         *)

\* Whether the header of `path` begins at place i of source_parts.
header_at(i, path) ==
    /\ i + 7 <= Len(source_parts)
    /\ source_parts[i + 4].text = path
    /\ \A k \in 1..8 : source_parts[i + k - 1].text = header(path)[k]

\* The places where a header begins.
header_places ==
    {i \in 1..Len(source_parts) :
        \E source \in DOMAIN loaded_sources : header_at(i, loaded_sources[source].path)}

\* Whether the header of a loaded source is among source_parts.
has_header(source) ==
    \E i \in 1..Len(source_parts) : header_at(i, loaded_sources[source].path)

\* The parts added for a loaded source after its header, up to the header of
\* the next source.
sweep_parts(source) ==
    IF ~has_header(source)
    THEN <<>>
    ELSE LET h == CHOOSE i \in 1..Len(source_parts) :
                     header_at(i, loaded_sources[source].path)
             later == {i \in (h + 8)..Len(source_parts) :
                          \E other \in DOMAIN loaded_sources :
                              header_at(i, loaded_sources[other].path)}
             last == IF later = {}
                     THEN Len(source_parts)
                     ELSE (CHOOSE i \in later : \A j \in later : i <= j) - 1
         IN  SubSeq(source_parts, h + 8, last)

\* Whether the sweep of a loaded source is over.
swept(source) ==
    /\ source \in DOMAIN loaded_sources
    /\ source \notin unvisited
    /\ cur # Some(source)
    /\ pc \in {"sources", "sweep", "done"}

\* The ranges interned for a source.
ranges_of(source) == {range \in DOMAIN res.ranges.ranges : range.source = source}

\* Where a character of a loaded source stands (no character is there twice).
locate(source, ch) ==
    LET text == loaded_sources[source].text
    IN  CHOOSE p \in UNION {{Position(line, column - 1) : column \in 1..Len(text[line])} :
                            line \in 1..Len(text)} :
            text[p.line][p.column + 1] = ch

\* Whether a position is one of the text: on one of its lines, at one of
\* its characters or at its end.
in_text(text, p) ==
    /\ 1 <= p.line
    /\ p.line <= Len(text)
    /\ p.column <= Len(text[p.line])

pos_le(a, b) == ~pos_lt(b, a)

\* The ids of the ranges of a source that hold position p: start <= p < end.
active_at(source, p) ==
    {res.ranges.ranges[range] :
        range \in {r \in ranges_of(source) : pos_le(r.start, p) /\ pos_lt(p, r.end)}}

\* The ids a part lists.
ids_of(part) == {part.indexes[j] : j \in 1..Len(part.indexes)}

\* Whether every range of a source starts no later than it ends, within the text.
well_ranged(source) ==
    \A range \in ranges_of(source) :
        /\ pos_le(range.start, range.end)
        /\ in_text(loaded_sources[source].text, range.start)
        /\ in_text(loaded_sources[source].text, range.end)

\* The position of the first separator of a source: its least range start.
first_event(source) ==
    LET starts == {range.start : range \in ranges_of(source)}
                  \cup {range.end : range \in ranges_of(source)}
    IN  CHOOSE p \in starts : \A q \in starts : pos_le(p, q)

\* The position of its last separator.
last_event(source) ==
    LET ends == {range.start : range \in ranges_of(source)}
                \cup {range.end : range \in ranges_of(source)}
    IN  CHOOSE p \in ends : \A q \in ends : pos_le(q, p)

----------------------------------------------------------------------------
(* C3                                                                      *)

\* C3: for every loaded source whose ranges start no later than they end and
\* lie within its text, every part added by its sweep lists, without
\* repetition, exactly the ids of the ranges r with start_r <= p < end_r, for
\* every character position p of the part.
C3_PartsCarryActiveIds ==
    \A source \in DOMAIN loaded_sources :
        well_ranged(source) =>
            LET parts == sweep_parts(source)
            IN  \A i \in 1..Len(parts) :
                    parts[i].text # Newline =>
                        /\ Len(parts[i].indexes) = Cardinality(ids_of(parts[i]))
                        /\ \A k \in 1..Len(parts[i].text) :
                              ids_of(parts[i])
                              = active_at(source, locate(source, parts[i].text[k]))

\* A range B nested in a range A on one line: the characters of B are in a
\* part with both ids, the rest of the line in a part with the id of A alone.
C3_Witness ==
    /\ pc = "done"
    /\ \E source \in DOMAIN loaded_sources :
          /\ well_ranged(source)
          /\ \E A, B \in ranges_of(source) :
                /\ A # B
                /\ pos_le(A.start, B.start) /\ pos_lt(B.end, A.end)
                /\ B.start.line = B.end.line
                /\ \E i \in 1..(Len(sweep_parts(source)) - 1) :
                      LET inside == sweep_parts(source)[i]
                          rest == sweep_parts(source)[i + 1]
                      IN  /\ inside.text # <<>> /\ inside.text # Newline
                          /\ ids_of(inside) = {res.ranges.ranges[A], res.ranges.ranges[B]}
                          /\ locate(source, inside.text[1]) = B.start
                          /\ rest.text # <<>> /\ rest.text # Newline
                          /\ ids_of(rest) = {res.ranges.ranges[A]}

----------------------------------------------------------------------------
(* C4                                                                      *)

RECURSIVE join_lines(_, _, _)
\* The lines `from`..`to` of a text, each with its line break.
join_lines(text, from, to) ==
    IF from > to
    THEN <<>>
    ELSE text[from] \o Newline \o join_lines(text, from + 1, to)

\* C4: for a loaded source whose ranges lie within its text, once its sweep
\* is over, its parts concatenate to the text from some column of the line
\* of the first separator, no later than that separator, to the end of the
\* line of the last separator: every character between the first position
\* referenced and the end of the last line referenced, once, in the order of
\* the file, and no line after.
C4_PartsAreContiguous ==
    \A source \in DOMAIN loaded_sources :
        (swept(source) /\ well_ranged(source)) =>
            LET text == loaded_sources[source].text
                first == first_event(source)
                last == last_event(source)
            IN  \E column \in 0..first.column :
                   concat(sweep_parts(source))
                   = skip(text[first.line], column) \o Newline
                     \o join_lines(text, first.line + 1, last.line)

\* A sweep over two lines, from a position inside the first.
C4_Witness ==
    /\ pc = "done"
    /\ \E source \in DOMAIN loaded_sources :
          /\ well_ranged(source)
          /\ first_event(source).line < last_event(source).line
          /\ Cardinality(ranges_of(source)) = 2
          /\ Len(concat(sweep_parts(source))) = 5

----------------------------------------------------------------------------
(* C5                                                                      *)

\* The positions of the characters of the parts of a loaded source.
emitted_positions(source) ==
    LET parts == sweep_parts(source)
    IN  UNION {{locate(source, parts[i].text[k]) : k \in 1..Len(parts[i].text)} :
               i \in {j \in 1..Len(parts) : parts[j].text # Newline}}

\* C5 as claimed: no part of a loaded source holds a character that stands
\* before the position of the first separator of the source.
C5_NothingBeforeFirstEvent ==
    \A source \in DOMAIN loaded_sources :
        LET first == first_event(source)
        IN  \A p \in emitted_positions(source) : pos_le(first, p)

\* C5 as amended: no part holds a character of a line before the line of the
\* first separator; the characters of that line before the separator are in
\* a part with no id.
C5_NothingBeforeFirstLine ==
    \A source \in DOMAIN loaded_sources :
        LET parts == sweep_parts(source)
            first == first_event(source)
        IN  /\ \A p \in emitted_positions(source) : first.line <= p.line
            /\ \A i \in 1..Len(parts) :
                  (/\ parts[i].text # Newline
                   /\ \E k \in 1..Len(parts[i].text) :
                         pos_lt(locate(source, parts[i].text[k]), first))
                  => parts[i].indexes = <<>>

\* A sweep whose first separator is on line 2, after the first character.
C5_Witness ==
    /\ pc = "done"
    /\ \E source \in DOMAIN loaded_sources :
          /\ first_event(source) = Position(2, 1)
          /\ Position(2, 0) \in emitted_positions(source)
          /\ Position(2, 1) \in emitted_positions(source)

----------------------------------------------------------------------------
(* C6                                                                      *)

\* C6: once load_original_source has read the files, the generated chunks
\* are those of the formatter alone, and the run is neither stopped by a
\* fault nor stuck; when it is over, a file that could not be read has no
\* part (no header, and no part lists the id of a range of the file) and
\* every part belongs to a file that was read, each of which has its header.
C6_UnreadableFileIsSkipped ==
    /\ pc \in {"sources", "sweep", "done"} =>
          res.ranges.generated = generate_ranges(input).generated
    /\ pc # "panic"
    /\ pc = "done" \/ ENABLED Next
    /\ pc = "done" =>
          /\ \A path \in DOMAIN res.ranges.sources :
                LET source == res.ranges.sources[path]
                IN  IF fs[path] = None
                    THEN \A i \in 1..Len(source_parts) :
                            /\ source_parts[i].text # path
                            /\ \A range \in ranges_of(source) :
                                  res.ranges.ranges[range] \notin ids_of(source_parts[i])
                    ELSE source \in DOMAIN loaded_sources /\ has_header(source)
          /\ source_parts # <<>> => 1 \in header_places
          /\ Cardinality(header_places)
             = Cardinality({path \in DOMAIN res.ranges.sources : fs[path] # None})

\* A run with a file that could not be read and another that was swept.
C6_Witness ==
    /\ pc = "done"
    /\ \E p1, p2 \in DOMAIN res.ranges.sources :
          /\ fs[p1] = None
          /\ fs[p2] # None
          /\ res.ranges.sources[p1] < res.ranges.sources[p2]
          /\ \E i \in 1..Len(source_parts) : source_parts[i].indexes # <<>>

----------------------------------------------------------------------------
(* C7                                                                      *)

\* Whether a text is a run of consecutive characters of one line.
is_slice(s, line) ==
    \E from \in 1..Len(line) : \E to \in from..Len(line) : s = SubSeq(line, from, to)

\* C7: whatever the positions of the separators, the sweep is neither
\* stopped by a fault nor stuck, its cursor is at the last separator when
\* the separators are exhausted, and every part with a text holds
\* consecutive characters of one line of the loaded text.
C7_SweepToleratesAnyPosition ==
    /\ pc # "panic"
    /\ pc = "done" \/ ENABLED Next
    /\ (pc = "sweep" /\ next_sep > Len(range_seps)) =>
          pos = range_seps[Len(range_seps)].pos
    /\ \A source \in DOMAIN loaded_sources :
          LET parts == sweep_parts(source)
          IN  \A i \in 1..Len(parts) :
                  (parts[i].text # <<>> /\ parts[i].text # Newline) =>
                      \E l \in 1..Len(loaded_sources[source].text) :
                          is_slice(parts[i].text, loaded_sources[source].text[l])

\* A sweep over a separator on line 0, one past the last line and one past
\* the end of its line, that has added a part with a text.
C7_Witness ==
    /\ pc = "done"
    /\ \E source \in DOMAIN loaded_sources :
          LET text == loaded_sources[source].text
          IN  /\ \E range \in ranges_of(source) : range.start.line = 0
              /\ \E range \in ranges_of(source) : range.end.line > Len(text)
              /\ \E range \in ranges_of(source) :
                    /\ range.start.line \in 1..Len(text)
                    /\ range.start.column > Len(text[range.start.line])
              /\ \E i \in 1..Len(sweep_parts(source)) :
                    /\ sweep_parts(source)[i].text # <<>>
                    /\ sweep_parts(source)[i].text # Newline

----------------------------------------------------------------------------
(* C8                                                                      *)

\* The ranges of a loaded source whose start and end are both outside its text.
outside_ranges(source) ==
    {range \in ranges_of(source) :
        /\ ~in_text(loaded_sources[source].text, range.start)
        /\ ~in_text(loaded_sources[source].text, range.end)}

\* C8 as claimed: the id of a range whose start and end both lie outside the
\* text is listed by no part.
C8_OutsideRangeTagsNothing ==
    \A source \in DOMAIN loaded_sources :
        LET parts == sweep_parts(source)
        IN  \A range \in outside_ranges(source) :
                \A i \in 1..Len(parts) :
                    res.ranges.ranges[range] \notin ids_of(parts[i])

\* C8 as amended: the separators outside the text are applied, not dropped,
\* and the text is clipped; the id of a range whose start and end both lie
\* outside the text is listed only by parts without text and by parts whose
\* characters all stand at or after its start and before its end.
C8_OutsideRangeTagsOnlyBetween ==
    \A source \in DOMAIN loaded_sources :
        LET parts == sweep_parts(source)
        IN  \A range \in outside_ranges(source) :
                \A i \in 1..Len(parts) :
                    (/\ parts[i].text # Newline
                     /\ res.ranges.ranges[range] \in ids_of(parts[i])) =>
                        \A k \in 1..Len(parts[i].text) :
                            LET p == locate(source, parts[i].text[k])
                            IN  pos_le(range.start, p) /\ pos_lt(p, range.end)

\* A range from past the end of line 1 to past the last line, listed by a
\* part without text and by the part of line 2.
C8_Witness ==
    /\ pc = "done"
    /\ \E source \in DOMAIN loaded_sources :
          \E range \in outside_ranges(source) :
              /\ range.start.line = 1
              /\ \E i, j \in 1..Len(sweep_parts(source)) :
                    /\ sweep_parts(source)[i].text = <<>>
                    /\ res.ranges.ranges[range] \in ids_of(sweep_parts(source)[i])
                    /\ Len(sweep_parts(source)[j].text) = 2
                    /\ res.ranges.ranges[range] \in ids_of(sweep_parts(source)[j])

----------------------------------------------------------------------------
(* C11                                                                     *)

\* The texts whose emission forces a newline (visit_str, lines 114-125).
Terminators == {<<"{">>, <<";">>, <<"}">>}

\* C11 as claimed: when a token is about to be visited with a newline
\* pending, the spacing state is Never, and no space chunk lies between the
\* chunk of a `{`, `;` or `}` and the chunk of the next token: after the
\* newline come the indentation and the token.
C11_NoSpaceAfterForcedNewline ==
    LET generated == res.ranges.generated
        at == chunk_places(generated, 1)
        visiting == pc = "format" /\ (Head(todo).stream # <<>> \/ Head(todo).group # None)
    IN  /\ (visiting /\ res.newline) => res.needs_space = "Never"
        /\ \A i \in 1..(Len(at) - 1) :
              generated[at[i]].text \in Terminators =>
                  \A k \in (at[i] + 1)..(at[i + 1] - 1) : generated[k].text # Space

----------------------------------------------------------------------------
(* C12                                                                     *)

\* The tokens that have been emitted so far, in order.
emitted ==
    SubSeq(tokens(input), 1, Len(chunk_places(res.ranges.generated, 1)))

\* The number of brace groups open around the i-th emitted token: a `{`
\* counts from the token after it on, a `}` closes its group before it is
\* emitted.
depth(i) ==
    Cardinality({j \in 1..(i - 1) : emitted[j].text = <<"{">>})
    - Cardinality({j \in 1..i : emitted[j].text = <<"}">>})

\* Whether a newline is pending when the i-th emitted token is emitted: it
\* is the first token, or it follows a `{`, `;` or `}`, or it is a `}`
\* (which forces the newline itself).
line_first(i) ==
    \/ i = 1
    \/ emitted[i - 1].text \in Terminators
    \/ emitted[i].text = <<"}">>

\* A text of n spaces.
spaces(n) == [k \in 1..n |-> " "]

\* The pending-newline flag is set exactly when no token has been emitted
\* yet or the last one emitted is a `{`, `;` or `}`: the emission of any
\* other text leaves it cleared.
newline_cleared ==
    res.newline <=> (emitted = <<>> \/ emitted[Len(emitted)].text \in Terminators)

\* C12 as claimed: the text of a token emitted with a newline pending at
\* depth d >= 1 comes right after one chunk of 4*d spaces that has no id,
\* and the flag is cleared by the emission.
C12_OneIndentChunk ==
    LET generated == res.ranges.generated
        at == chunk_places(generated, 1)
    IN  /\ newline_cleared
        /\ \A i \in 1..Len(at) :
              (line_first(i) /\ depth(i) >= 1) =>
                  /\ at[i] > 1
                  /\ generated[at[i] - 1] = [text |-> spaces(4 * depth(i)),
                                             range_idx |-> None]

\* C12 as amended: the text of a token emitted with a newline pending at
\* depth d comes right after exactly d chunks of 4 spaces each, none with
\* an id, and the flag is cleared by the emission.
C12_IndentChunks ==
    LET generated == res.ranges.generated
        at == chunk_places(generated, 1)
    IN  /\ newline_cleared
        /\ \A i \in 1..Len(at) :
              line_first(i) =>
                  /\ at[i] > depth(i)
                  /\ \A k \in (at[i] - depth(i))..(at[i] - 1) :
                        generated[k] = [text |-> Indentation, range_idx |-> None]
                  /\ at[i] - depth(i) > 1 =>
                        generated[at[i] - depth(i) - 1].text # Indentation

\* A traversal that has emitted, first on their lines, an identifier at
\* depth 3, a literal at depth 2 and a `}` at depth 0.
C12_Witness ==
    /\ pc = "done"
    /\ \E i, j, k \in 1..Len(emitted) :
          /\ line_first(i) /\ depth(i) = 3 /\ emitted[i].kind = "Ident"
          /\ line_first(j) /\ depth(j) = 2 /\ emitted[j].kind = "Literal"
          /\ depth(k) = 0 /\ emitted[k].kind = "Close"

----------------------------------------------------------------------------
(* C13                                                                     *)

\* C13: every `}` emitted is the first text of its line: between the chunk
\* of the token before it and its own chunk there is one newline chunk (the
\* one that `{`, `;` or `}` left pending, else the one the `}` inserts) and
\* then only the indentation of the depth outside its group; and the chunk
\* of every `{`, `;` and `}` is followed at once by a newline chunk.
C13_CloseOnOwnLine ==
    LET generated == res.ranges.generated
        at == chunk_places(generated, 1)
        newline_chunk == [text |-> Newline, range_idx |-> None]
        indent_chunk == [text |-> Indentation, range_idx |-> None]
    IN  /\ \A i \in 1..Len(at) :
              generated[at[i]].text \in Terminators =>
                  /\ at[i] < Len(generated)
                  /\ generated[at[i] + 1] = newline_chunk
        /\ \A i \in 2..Len(at) :
              emitted[i].text = <<"}">> =>
                  SubSeq(generated, at[i - 1] + 1, at[i] - 1)
                  = <<newline_chunk>> \o [k \in 1..depth(i) |-> indent_chunk]

\* A `}` after an identifier (it inserts its newline) at depth 2, a `}`
\* after a `}` at depth 1 and a `}` after a `;` at depth 0 (the newline is
\* pending).
C13_Witness ==
    /\ pc = "done"
    /\ \E i, j, k \in 2..Len(emitted) :
          /\ emitted[i].text = <<"}">> /\ emitted[i - 1].kind = "Ident" /\ depth(i) = 2
          /\ emitted[j].text = <<"}">> /\ emitted[j - 1].text = <<"}">> /\ depth(j) = 1
          /\ emitted[k].text = <<"}">> /\ emitted[k - 1].text = <<";">> /\ depth(k) = 0

----------------------------------------------------------------------------
(* C14                                                                     *)

\* The brace groups whose stream visit_token_stream is in: the frames of
\* the call stack that belong to a group with braces.
open_braces ==
    {k \in 1..Len(todo) :
        todo[k].group # None /\ todo[k].group[1].delimiter = "Brace"}

\* C14: at every step of the traversal the indent counter is the number of
\* brace groups that are open, no `}` decrements it at 0, and it is 0 once
\* generate_ranges has returned.
C14_IndentCountsOpenBraces ==
    /\ ~res.overflow
    /\ pc = "format" => res.indent = Cardinality(open_braces)
    /\ pc # "format" => res.indent = 0

\* A traversal that is over and went three brace groups deep.
C14_Witness ==
    /\ pc = "done"
    /\ res.indent = 0
    /\ \E i \in 1..Len(emitted) : depth(i) = 3 /\ emitted[i].kind = "Ident"

----------------------------------------------------------------------------
(* C15                                                                     *)

\* C15: while a source is swept, its separators are all there, in the order
\* in which the sweep applies them: by line, then by column; at one position
\* every Start before every End; and for one kind at one position the lower
\* id first.  The cursor stands at the last separator applied.
C15_EventsInOrder ==
    pc = "sweep" =>
        /\ {range_seps[i] : i \in 1..Len(range_seps)} = loaded_sources[cur[1]].range_seps
        /\ Len(range_seps) = 2 * Cardinality(ranges_of(cur[1]))
        /\ \A i, j \in 1..Len(range_seps) :
              i < j =>
                  LET a == range_seps[i]
                      b == range_seps[j]
                  IN  /\ a.pos.line <= b.pos.line
                      /\ a.pos.line = b.pos.line => a.pos.column <= b.pos.column
                      /\ a.pos = b.pos => ~(a.sep = "End" /\ b.sep = "Start")
                      /\ (a.pos = b.pos /\ a.sep = b.sep) => a.idx < b.idx
        /\ next_sep > 1 => pos = range_seps[next_sep - 1].pos

\* A sweep that has applied two Starts at one position, a Start and an End
\* of two ranges at one position, and separators on two lines.
C15_Witness ==
    /\ pc = "sweep"
    /\ next_sep > Len(range_seps)
    /\ \E i, j \in 1..Len(range_seps) :
          /\ range_seps[i].pos = range_seps[j].pos
          /\ range_seps[i].sep = "Start" /\ range_seps[j].sep = "Start"
          /\ range_seps[i].idx # range_seps[j].idx
    /\ \E i, j \in 1..Len(range_seps) :
          /\ range_seps[i].pos = range_seps[j].pos
          /\ range_seps[i].sep = "Start" /\ range_seps[j].sep = "End"
          /\ range_seps[i].idx # range_seps[j].idx
    /\ range_seps[1].pos.line < range_seps[Len(range_seps)].pos.line

----------------------------------------------------------------------------
(* C16                                                                     *)

\* Whether a part holds text of the file (a newline part holds none).
is_text(part) == part.text # Newline

\* The position right after the last character of a part with text.
end_of(source, part) ==
    LET last == locate(source, part.text[Len(part.text)])
    IN  Position(last.line, last.column + 1)

\* The ranges of a source with a separator at position p.
ranges_at(source, p) ==
    {range \in ranges_of(source) : range.start = p \/ range.end = p}

\* C16 as claimed: for a loaded source whose ranges lie within its text, no
\* part with text of the file is empty and no two such parts next to each
\* other list the same ids.
C16_PartsAreMaximal ==
    \A source \in DOMAIN loaded_sources :
        (swept(source) /\ well_ranged(source)) =>
            LET parts == sweep_parts(source)
            IN  /\ \A i \in 1..Len(parts) : parts[i].text # <<>>
                /\ \A i \in 1..(Len(parts) - 1) :
                      (is_text(parts[i]) /\ is_text(parts[i + 1])) =>
                          ids_of(parts[i]) # ids_of(parts[i + 1])

\* C16 as amended: for a loaded source whose ranges lie within its text, a
\* part is empty only as the rest of a line (a newline part follows it, and
\* a part with text before it ends at the end of the line); two parts with
\* text next to each other meet at the position of a separator, and they
\* list the same ids exactly when every range with a separator there is empty.
C16_PartsMeetAtSeparators ==
    \A source \in DOMAIN loaded_sources :
        (swept(source) /\ well_ranged(source)) =>
            LET parts == sweep_parts(source)
                text == loaded_sources[source].text
            IN  /\ \A i \in 1..Len(parts) :
                      parts[i].text = <<>> =>
                          /\ i < Len(parts)
                          /\ parts[i + 1].text = Newline
                          /\ (i > 1 /\ is_text(parts[i - 1])) =>
                                /\ parts[i - 1].text # <<>>
                                /\ LET p == end_of(source, parts[i - 1])
                                   IN  p.column = Len(text[p.line])
                /\ \A i \in 1..(Len(parts) - 1) :
                      (is_text(parts[i]) /\ is_text(parts[i + 1])) =>
                          /\ parts[i].text # <<>>
                          /\ LET p == end_of(source, parts[i])
                             IN  /\ ranges_at(source, p) # {}
                                 /\ (ids_of(parts[i]) = ids_of(parts[i + 1]))
                                    <=> (\A range \in ranges_at(source, p) :
                                            range.start = range.end)

\* A sweep that has added an empty part at the end of a line and two parts
\* with text, next to each other, that list the same id.
C16_Witness ==
    /\ pc = "done"
    /\ \E source \in DOMAIN loaded_sources :
          /\ well_ranged(source)
          /\ LET parts == sweep_parts(source)
             IN  /\ \E i \in 1..Len(parts) : parts[i].text = <<>>
                 /\ \E i \in 1..(Len(parts) - 1) :
                       /\ is_text(parts[i]) /\ is_text(parts[i + 1])
                       /\ parts[i + 1].text # <<>>
                       /\ ids_of(parts[i]) = ids_of(parts[i + 1])
                       /\ ids_of(parts[i]) # {}

----------------------------------------------------------------------------
(* C17                                                                     *)

\* C17 as claimed: load_original_source has one outcome for the ranges and
\* the files it is given, the one this run has produced: another run on the
\* same token tree and the same files returns the same parts, each with its
\* ids in the same order, the files in the same order.
C17_RunsAgree ==
    pc = "done" => load_original_source(res.ranges, fs) = {source_parts}

----------------------------------------------------------------------------
(* C18                                                                     *)

\* The places of range_seps where the separators of one kind of an id stand.
places_of(idx, sep) ==
    {i \in 1..Len(range_seps) : range_seps[i].idx = idx /\ range_seps[i].sep = sep}

\* C18: while a source is swept, every id of its ranges has one Start and
\* one End among the separators, the Start before the End; the active set
\* holds the ids whose Start is applied and whose End is not, and is empty
\* after the last separator.  Once the source is swept, the part with the
\* rest of the last line lists no id, and no part lists the id of an empty
\* range.
C18_EachIdOpensThenCloses ==
    /\ pc = "sweep" =>
          /\ \A range \in ranges_of(cur[1]) :
                LET idx == res.ranges.ranges[range]
                IN  /\ Cardinality(places_of(idx, "Start")) = 1
                    /\ Cardinality(places_of(idx, "End")) = 1
                    /\ \A i \in places_of(idx, "Start"), j \in places_of(idx, "End") :
                          i < j
          /\ indexes = {range_seps[i].idx : i \in
                           {i \in 1..(next_sep - 1) :
                               /\ range_seps[i].sep = "Start"
                               /\ places_of(range_seps[i].idx, "End")
                                  \cap 1..(next_sep - 1) = {}}}
          /\ next_sep > Len(range_seps) => indexes = {}
    /\ \A source \in DOMAIN loaded_sources :
          swept(source) =>
              LET parts == sweep_parts(source)
              IN  /\ parts # <<>>
                  /\ parts[Len(parts)] = [text |-> Newline, indexes |-> <<>>]
                  /\ (Len(parts) > 1 /\ is_text(parts[Len(parts) - 1])) =>
                        parts[Len(parts) - 1].indexes = <<>>
                  /\ \A range \in ranges_of(source) :
                        range.start = range.end =>
                            \A i \in 1..Len(parts) :
                                res.ranges.ranges[range] \notin ids_of(parts[i])

\* A swept source with an empty range inside a range that is not, text in a
\* part that lists the latter, and text left on the last line after it.
C18_Witness ==
    /\ pc = "done"
    /\ \E source \in DOMAIN loaded_sources :
          LET parts == sweep_parts(source)
          IN  /\ \E A, B \in ranges_of(source) :
                    /\ A.start = A.end
                    /\ pos_lt(B.start, A.start) /\ pos_lt(A.end, B.end)
                    /\ \E i \in 1..Len(parts) :
                          /\ parts[i].text # <<>>
                          /\ ids_of(parts[i]) = {res.ranges.ranges[B]}
              /\ Len(parts) > 1
              /\ is_text(parts[Len(parts) - 1])
              /\ parts[Len(parts) - 1].text # <<>>

----------------------------------------------------------------------------
(* C19                                                                     *)

\* C19: at every step, every file that add_span has interned is the source
\* of a range it has interned; every loaded source has separators, and the
\* `first().unwrap()` of load_original_source finds one.
C19_EverySourceHasARange ==
    /\ \A path \in DOMAIN res.ranges.sources :
          \E range \in DOMAIN res.ranges.ranges :
              range.source = res.ranges.sources[path]
    /\ \A source \in DOMAIN loaded_sources :
          loaded_sources[source].range_seps # {}
    /\ pc # "panic"
    /\ pc = "sweep" => range_seps # <<>>

\* A run over a stream with a token that has no real span and tokens of two
\* files, both read and swept.
C19_Witness ==
    /\ pc = "done"
    /\ Cardinality(DOMAIN loaded_sources) = 2
    /\ \E i \in 1..Len(tokens(input)) : ~tokens(input)[i].span.is_real

----------------------------------------------------------------------------
(* C20                                                                     *)

\* The ids of the generated chunks.
generated_ids ==
    {res.ranges.generated[i].range_idx[1] :
        i \in {i \in 1..Len(res.ranges.generated) :
                  res.ranges.generated[i].range_idx # None}}

\* The ids the parts of the source side list.
source_ids == UNION {ids_of(source_parts[i]) : i \in 1..Len(source_parts)}

\* C20: at every step, every id listed by a part of the source side is the
\* id of a generated chunk, and every id of either side is a number below
\* the number of interned ranges.
C20_SourceIdsAreGenerated ==
    /\ source_ids \subseteq generated_ids
    /\ generated_ids \subseteq 0..(Cardinality(DOMAIN res.ranges.ranges) - 1)
    /\ source_ids \subseteq 0..(Cardinality(DOMAIN res.ranges.ranges) - 1)

\* A run whose source side lists two ids in one part and leaves out an id of
\* the generated side.
C20_Witness ==
    /\ pc = "done"
    /\ \E i \in 1..Len(source_parts) : Len(source_parts[i].indexes) = 2
    /\ source_ids # generated_ids

============================================================================
